---------------------------- MODULE Spec2Model ----------------------------
(***************************************************************************)
(* Model of pysashimi's coordinate scaling, junction layout and y-axis     *)
(* normalisation, and of its GTF indexing and BAM reading                  *)
(* (src/utils/reading_input.py).                                           *)
(* Two copies of the plotting code live in the repository:                 *)
(*   utils    src/utils/sashimi_plot_utils.py                               *)
(*   new_src  src/new_src/sashimi_plot_utils.py                             *)
(* The variable `variant` says which copy a behaviour runs.                 *)
(*                                                                         *)
(* Numbers.  Plot x coordinates are kept as integers in units of 1/Den,    *)
(* y values as integers in units of 1/YDen.  All scales and depths of the  *)
(* model are dyadic or decimal fractions that these units hold exactly, so *)
(* the float arithmetic of the code is reproduced without rounding.        *)
(* Arrays are functions over 0..n-1, as Python indexes them.               *)
(***************************************************************************)
EXTENDS Integers, Sequences, FiniteSets, TLC

VARIABLES
    variant,         \* which copy of the code runs: "utils" or "new_src"
    region,          \* splice_region: start, end, strand, exon_starts, exon_ends
    settings,        \* settings: intron_scale, exon_scale, reverse_minus
    pc,              \* position inside plot_density / get_scaling
    exon_coords,     \* get_scaling: the exon mask
    graph_coords,    \* get_scaling: genomic offset -> plot x
    graph_to_gene,   \* get_scaling: int(plot x) -> genomic coordinate
    forward,         \* get_scaling: TRUE when the first (ascending) branch ran
    no_bam,          \* plot_density's no_bam argument (utils only)
    n_panels,        \* len(read_depths_dict)
    panel_i,         \* the panel the loop of plot_density is at, from 1
    panel,           \* average_read_depth of that panel: wiggle, jxns
    panel_tops,      \* the maximum depth of every panel picked so far
    max_used_y_val,  \* plot_density: the upper y bound
    fake_y_min,      \* plot_density: the fake lower y bound
    axis_done,       \* TRUE once max_used_y_val has been computed
    layouts,         \* number of plot_density_single calls so far
    arcs,            \* junction arcs of the latest plot_density_single call
    ybounds,         \* what set_ybound / set_bounds gave each panel so far
    resolution,      \* settings["resolution"] (new_src only), in units of 1/Den
    log,             \* plot_density's log argument (utils only): NoLog, 2 or 10
    nyticks,         \* settings["nyticks"]
    transcripts,     \* splice_region.transcripts: start, end, strand
    fill,            \* what the latest plot_density_single call filled or plotted
    yticks,          \* the y ticks and tick labels given to each panel so far
    arrows,          \* plot_transcripts: the intron arrows of every transcript
    nxticks,         \* settings["nxticks"]
    xticks,          \* the x tick labels of the latest plot_density_single call
    gtf,             \* index_gtf: the call chain and the files it sees
    bam              \* read_reads_depth_from_bam: the workers and the result

scaling_vars == <<exon_coords, graph_coords, graph_to_gene, forward>>
input_vars == <<variant, region, settings, no_bam, n_panels, resolution, log,
                nyticks, transcripts, nxticks>>
file_vars == <<gtf, bam>>
axis_vars == <<max_used_y_val, fake_y_min, axis_done>>
vars == <<variant, region, settings, pc, exon_coords, graph_coords,
          graph_to_gene, forward, no_bam, n_panels, panel_i, panel,
          panel_tops, max_used_y_val, fake_y_min, axis_done, layouts, arcs,
          ybounds, resolution, log, nyticks, transcripts, fill, yticks,
          arrows, nxticks, xticks, gtf, bam>>

---------------------------------------------------------------------------
(* Bounds of the model *)

MaxLen == 3          \* longest region, in bases
MaxExons == 1        \* most exons of a region
ExonOver == 1        \* how far an exon may reach beyond the region
BaseStart == 10      \* genomic coordinate of the first base of the region

Scales == {1, 2}     \* values of exon_scale and intron_scale
Strands == {"+", "-"}
Variants == {"utils", "new_src"}

Max(a, b) == IF a >= b THEN a ELSE b
Min(a, b) == IF a <= b THEN a ELSE b
SetMax(S) == CHOOSE m \in S : \A y \in S : y <= m
SetMin(S) == CHOOSE m \in S : \A y \in S : m <= y
Abs(a) == IF a < 0 THEN -a ELSE a

\* common denominator of 1/scale over all scales of the model
Den == CHOOSE d \in Scales : \A s \in Scales : d % s = 0

---------------------------------------------------------------------------
(* get_scaling *)

\* Python's a[lo:hi] on an array of length n: the indices the slice covers.
PySlice(lo, hi, n) ==
    LET l == IF lo < 0 THEN Max(lo + n, 0) ELSE Min(lo, n)
        h == IF hi < 0 THEN Max(hi + n, 0) ELSE Min(hi, n)
    IN  {i \in 0..(n - 1) : l <= i /\ i < h}

\* Python's a[k] for k < 0 on an array of length n.
NegIndex(k, n) == n + k

\* for i in range(len(exon_starts)):
\*     exon_coords[exon_starts[i] - tx_start : exon_ends[i] - tx_start] = 1
MarkExons(tx_start, n, exon_starts, exon_ends) ==
    [i \in 0..(n - 1) |->
        IF \E k \in 1..Len(exon_starts) :
               i \in PySlice(exon_starts[k] - tx_start,
                             exon_ends[k] - tx_start, n)
        THEN 1 ELSE 0]

\* 1. / scale, in units of 1/Den
Step(scale) == Den \div scale

\* x += 1. / exon_scale  or  x += 1. / intron_scale
AdvanceSwapped(x, mark, exon_scale, intron_scale) ==
    IF mark = 1 THEN x + Step(intron_scale) ELSE x + Step(exon_scale)

AdvanceBackward(x, mark, exon_scale, intron_scale) ==
    IF mark = 1 THEN x - Step(exon_scale) ELSE x - Step(intron_scale)

Advance(x, mark, exon_scale, intron_scale) ==
    IF mark = 1 THEN x + Step(exon_scale) ELSE x + Step(intron_scale)

\* strand == '+' or not reverse_minus
TakesForward(strand, reverse_minus) == strand = "+" \/ ~reverse_minus

\* the array slot iteration i of the walk reads and writes
Slot(i, n, fwd) == IF fwd THEN i ELSE NegIndex(-(i + 1), n)

\* exon_coords[i] in the first branch, exon_coords[-(i + 1)] in the second
MaskAtSameEnd(mask, i, fwd) == mask[i]

MaskAt(mask, i, fwd) == mask[Slot(i, Cardinality(DOMAIN mask), fwd)]

\* the value of x when iteration i of the walk begins
RECURSIVE XAt(_, _, _, _, _)
XAt(i, mask, fwd, exon_scale, intron_scale) ==
    IF i = 0 THEN 0
    ELSE Advance(XAt(i - 1, mask, fwd, exon_scale, intron_scale),
                 MaskAt(mask, i - 1, fwd), exon_scale, intron_scale)

\* graph_coords after the loop: slot Slot(i) holds the x of iteration i
WalkCoords(mask, fwd, exon_scale, intron_scale) ==
    LET n == Cardinality(DOMAIN mask)
    IN  [s \in 0..(n - 1) |->
            LET i == CHOOSE j \in 0..(n - 1) : Slot(j, n, fwd) = s
            IN  XAt(i, mask, fwd, exon_scale, intron_scale)]

\* int(x): truncation towards zero
IntOf(x) == IF x >= 0 THEN x \div Den ELSE -((-x) \div Den)

\* the genomic coordinate iteration i stores in graph_to_gene
GeneAt(i, tx_start, tx_end, fwd) ==
    IF fwd THEN i + tx_start ELSE tx_end - i + 1

\* graph_to_gene after the loop: a later iteration overwrites an earlier
\* one that has the same key
WalkGenes(mask, fwd, tx_start, tx_end, exon_scale, intron_scale) ==
    LET n == Cardinality(DOMAIN mask)
        key(i) == IntOf(XAt(i, mask, fwd, exon_scale, intron_scale))
    IN  [k \in {key(i) : i \in 0..(n - 1)} |->
            GeneAt(SetMax({i \in 0..(n - 1) : key(i) = k}),
                   tx_start, tx_end, fwd)]

get_scaling(tx_start, tx_end, strand, exon_starts, exon_ends, intron_scale, exon_scale, reverse_minus) ==
    LET n == tx_end - tx_start + 1
        mask == MarkExons(tx_start, n, exon_starts, exon_ends)
        fwd == TakesForward(strand, reverse_minus)
    IN  [exon_coords |-> mask,
         forward |-> fwd,
         graph_coords |-> WalkCoords(mask, fwd, exon_scale, intron_scale),
         graph_to_gene |-> WalkGenes(mask, fwd, tx_start, tx_end,
                                     exon_scale, intron_scale)]

---------------------------------------------------------------------------
(* plot_density: the call of get_scaling *)

\* the strand plot_density hands to get_scaling
\*   utils:   strand = splice_region.strand
\*   new_src: strand = splice_region.start   (an integer, never '+')
StrandArg(v, r) == IF v = "utils" THEN r.strand ELSE ToString(r.start)

\* exon lists of a region, in the sorted order of an indexed GTF; every exon
\* overlaps the window [start, end + 1] that read_transcripts fetches
ExonPairs(s, e) ==
    {p \in ((s - ExonOver)..(e + 1)) \X (s..(e + ExonOver)) : p[1] <= p[2]}

PairLeq(p, q) == p[1] < q[1] \/ (p[1] = q[1] /\ p[2] <= q[2])

RECURSIVE ExonLists(_, _, _)
ExonLists(s, e, k) ==
    IF k = 0 THEN {<<>>}
    ELSE LET shorter == ExonLists(s, e, k - 1)
         IN  shorter \cup
             {Append(l, p) : l \in {m \in shorter : Len(m) = k - 1},
                             p \in ExonPairs(s, e)}

Sorted(l) == \A i \in 1..(Len(l) - 1) : PairLeq(l[i], l[i + 1])

Regions ==
    {[start |-> BaseStart, end |-> BaseStart + n - 1, strand |-> st,
      exon_starts |-> [k \in 1..Len(l) |-> l[k][1]],
      exon_ends |-> [k \in 1..Len(l) |-> l[k][2]]] :
        n \in 1..MaxLen, st \in Strands,
        l \in {m \in ExonLists(BaseStart, BaseStart + MaxLen - 1, MaxExons) :
                  Sorted(m)}}

ValidRegion(r) ==
    \A k \in 1..Len(r.exon_starts) :
        r.exon_starts[k] <= r.end + 1 /\ r.exon_ends[k] <= r.end + ExonOver

SettingsSet ==
    [intron_scale : Scales, exon_scale : Scales, reverse_minus : BOOLEAN]

NoArray == <<>>

\* index_gtf and read_reads_depth_from_bam have not been called
NoCall == [pc |-> "idle"]

\* the state plot_density starts in, the inputs aside
PlotStart ==
    /\ pc = "scaling"
    /\ exon_coords = NoArray
    /\ graph_coords = NoArray
    /\ graph_to_gene = NoArray
    /\ forward = TRUE
    /\ panel_i = 1
    /\ panel = NoArray
    /\ panel_tops = <<>>
    /\ max_used_y_val = 0
    /\ fake_y_min = 0
    /\ axis_done = FALSE
    /\ layouts = 0
    /\ arcs = <<>>
    /\ ybounds = <<>>
    /\ fill = NoArray
    /\ yticks = <<>>
    /\ arrows = <<>>
    /\ xticks = <<>>

Start == PlotStart /\ gtf = NoCall /\ bam = NoCall

\* resolution=.5, the default of new_src's plot_density_single
DefaultResolution == Den \div 2

\* log=None
NoLog == 0

\* values of settings["nyticks"]
NyTicks == {2}

\* nx_ticks=4, the default of plot_density_single
DefaultNxTicks == 4

\* the inputs the junction layout and the axis do not read, at their defaults
PlainInputs ==
    /\ resolution = DefaultResolution
    /\ log = NoLog
    /\ nyticks \in NyTicks
    /\ transcripts = <<>>
    /\ nxticks = DefaultNxTicks

Init ==
    /\ variant \in Variants
    /\ region \in {r \in Regions : ValidRegion(r)}
    /\ settings \in SettingsSet
    /\ no_bam = FALSE
    /\ n_panels = 1
    /\ PlainInputs
    /\ Start

\* 1. / exon_scale and 1. / intron_scale raise ZeroDivisionError for a scale
\* of 0; the walk divides by exon_scale at every exonic offset and by
\* intron_scale at every other one
DividesByZero(mask, exon_scale, intron_scale) ==
    \/ exon_scale = 0 /\ \E i \in DOMAIN mask : mask[i] = 1
    \/ intron_scale = 0 /\ \E i \in DOMAIN mask : mask[i] = 0

\* graph_coords, graph_to_gene = get_scaling(tx_start, tx_end, strand, ...)
\* Nothing of plot_density checks the settings before this call.
CallGetScaling ==
    /\ pc = "scaling"
    /\ IF DividesByZero(MarkExons(region.start,
                                  region.end - region.start + 1,
                                  region.exon_starts, region.exon_ends),
                        settings.exon_scale, settings.intron_scale)
       THEN /\ pc' = "error"
            /\ UNCHANGED scaling_vars
       ELSE /\ LET r == get_scaling(region.start, region.end,
                                    StrandArg(variant, region),
                                    region.exon_starts, region.exon_ends,
                                    settings.intron_scale,
                                    settings.exon_scale,
                                    settings.reverse_minus)
               IN  /\ exon_coords' = r.exon_coords
                   /\ graph_coords' = r.graph_coords
                   /\ graph_to_gene' = r.graph_to_gene
                   /\ forward' = r.forward
            /\ pc' = "panel"
    /\ UNCHANGED <<input_vars, file_vars, axis_vars, panel_i, panel,
                   panel_tops, layouts, arcs, ybounds, fill, yticks, arrows,
                   xticks>>

Next == CallGetScaling

Spec == Init /\ [][Next]_vars

---------------------------------------------------------------------------
(* y values *)

MaxHalfDepth == 4    \* highest depth of a panel, in halves of a read
MaxJxns == 2         \* most junctions of a panel
MaxPanels == 2       \* most panels of a render

\* y values are integers in units of 1/YDen.  Depths are halves of a read;
\* the code multiplies them by .5 (y_min, fake_y_min, no_bam), by 3/4
\* (current_height), by 1.1 (y_max) and by 1.2 (set_ybound): every product
\* is a whole number of units.
YDen == 2 * 2 * 4 * 10

\* v * num / den
Frac(v, num, den) == (v * num) \div den

DepthLevels == {k * (YDen \div 2) : k \in 1..MaxHalfDepth}

\* max(wiggle)
MaxOf(wiggle) == SetMax({wiggle[i] : i \in DOMAIN wiggle})

\* math.ceil(v)
CeilY(v) == ((v + YDen - 1) \div YDen) * YDen

\* if max_used_y_val % 2 == 1: max_used_y_val += 1
EvenUp(v) == IF v % (2 * YDen) = YDen THEN v + YDen ELSE v

---------------------------------------------------------------------------
(* plot_density_single: junction layout *)

\* __get_limited_index__(num, length); the copy in new_src returns the index
\* alone, without the flag
get_limited_index(num, length) ==
    IF num < 0 THEN [idx |-> 0, modified |-> TRUE]
    ELSE IF num >= length THEN [idx |-> length - 1, modified |-> TRUE]
    ELSE [idx |-> num, modified |-> FALSE]

\* ss1_idx: __get_limited_index__(leftss - tx_start - 1, len(graph_coords))
LeftIndexNoShift(jxn, tx_start, length) ==
    get_limited_index(jxn.start - tx_start, length)

LeftIndex(jxn, tx_start, length) ==
    get_limited_index(jxn.start - tx_start - 1, length)

\* ss2_idx: __get_limited_index__(rightss - tx_start, len(graph_coords))
RightIndex(jxn, tx_start, length) ==
    get_limited_index(jxn.end - tx_start, length)

Span(jxn) == jxn.end - jxn.start

\* sorted(..., key=lambda x: x.end - x.start, reverse=True): a stable sort,
\* junctions of equal span keep the order of the dictionary
RECURSIVE InsertBySpan(_, _)
InsertBySpan(l, j) ==
    IF l = <<>> THEN <<j>>
    ELSE IF Span(Head(l)) >= Span(j) THEN <<Head(l)>> \o InsertBySpan(Tail(l), j)
    ELSE <<j>> \o l

RECURSIVE SortBySpan(_)
SortBySpan(l) ==
    IF l = <<>> THEN <<>>
    ELSE InsertBySpan(SortBySpan(SubSeq(l, 1, Len(l) - 1)), l[Len(l)])

\* sorted(jxns.keys()) of new_src: the order of the Junction class, which is
\* defined outside these files; taken from the layout rule: longer span
\* first, equal spans by ascending start
JunctionLeq(a, b) ==
    Span(a) > Span(b) \/ (Span(a) = Span(b) /\ a.start <= b.start)

RECURSIVE InsertByKey(_, _)
InsertByKey(l, j) ==
    IF l = <<>> THEN <<j>>
    ELSE IF JunctionLeq(Head(l), j) THEN <<Head(l)>> \o InsertByKey(Tail(l), j)
    ELSE <<j>> \o l

RECURSIVE SortByKey(_)
SortByKey(l) ==
    IF l = <<>> THEN <<>>
    ELSE InsertByKey(SortByKey(SubSeq(l, 1, Len(l) - 1)), l[Len(l)])

jxns_sorted_list(v, jxns) ==
    IF v = "utils" THEN SortBySpan(jxns) ELSE SortByKey(jxns)

\* the y_max plot_density_single works with
\*   utils:   plot_density passes y_max = max_used_y_val
\*   new_src: plot_density passes ymax = None, so ymax = 1.1 * max(wiggle)
YMaxOf(v, wiggle, passed) ==
    IF v = "utils" THEN passed ELSE Frac(MaxOf(wiggle), 11, 10)

\* y_min = -.5 * y_max ; current_height = -3 * y_min / 4
CurrentHeight(y_max) ==
    LET y_min == -Frac(y_max, 1, 2)
    IN  Frac(-3 * y_min, 1, 4)

\* which junctions are drawn below the baseline
\*   utils:   if plotted_count % 2 == 0   # draw junction on bottom
\*   new_src: if plotted_count % 2 == 1   # draw junction on bottom
OnBottomAlways(v, plotted_count) == TRUE

OnBottom(v, plotted_count) ==
    IF v = "utils" THEN plotted_count % 2 = 0 ELSE plotted_count % 2 = 1

\* the height of an end control point, pts[0] or pts[3]
\*   bottom: 0 if not ss_modified else -current_height
\*   top:    dens if not ss_modified else dens + current_height
AnchorYUnforced(bottom, modified, dens, current_height) ==
    IF bottom THEN 0 ELSE dens

AnchorY(bottom, modified, dens, current_height) ==
    IF bottom THEN (IF ~modified THEN 0 ELSE -current_height)
    ELSE (IF ~modified THEN dens ELSE dens + current_height)

\* the arc of junction jxn, the plotted_count-th of the sorted list
Arc(v, plotted_count, jxn, coords, wiggle, tx_start, current_height, nobam) ==
    LET s1 == LeftIndex(jxn, tx_start, Cardinality(DOMAIN coords))
        s2 == RightIndex(jxn, tx_start, Cardinality(DOMAIN coords))
        ss1 == coords[s1.idx]
        ss2 == coords[s2.idx]
        m1 == v = "utils" /\ s1.modified
        m2 == v = "utils" /\ s2.modified
        d1 == LeftIndex(jxn, tx_start, Cardinality(DOMAIN wiggle))
        d2 == RightIndex(jxn, tx_start, Cardinality(DOMAIN wiggle))
        w1 == wiggle[IF v = "utils" THEN s1.idx ELSE d1.idx]
        w2 == wiggle[IF v = "utils" THEN s2.idx ELSE d2.idx]
        left_dens == IF nobam THEN Frac(w1, 1, 2) ELSE w1
        right_dens == IF nobam THEN Frac(w2, 1, 2) ELSE w2
        bottom == OnBottom(v, plotted_count)
    IN  [plotted_count |-> plotted_count,
         start |-> jxn.start,
         end |-> jxn.end,
         ss1_idx |-> s1.idx,
         ss2_idx |-> s2.idx,
         ss1_modified |-> m1,
         ss2_modified |-> m2,
         bottom |-> bottom,
         left_dens |-> left_dens,
         right_dens |-> right_dens,
         pts |-> IF bottom
                 THEN << <<ss1, AnchorY(bottom, m1, left_dens, current_height)>>,
                         <<ss1, -current_height>>,
                         <<ss2, -current_height>>,
                         <<ss2, AnchorY(bottom, m2, right_dens, current_height)>> >>
                 ELSE << <<ss1, AnchorY(bottom, m1, left_dens, current_height)>>,
                         <<ss1, left_dens + current_height>>,
                         <<ss2, right_dens + current_height>>,
                         <<ss2, AnchorY(bottom, m2, right_dens, current_height)>> >>]

\* jxns[jxn]: the count the dictionary holds for a junction
CountOf(pn, jxn) ==
    pn.counts[CHOOSE k \in 1..Len(pn.jxns) : pn.jxns[k] = jxn]

\* min_junction_count: 0 for an empty dictionary, else min(jxns.values())
min_junction_count(counts) ==
    IF counts = <<>> THEN 0
    ELSE SetMin({counts[k] : k \in 1..Len(counts)})

\* max_junction_count: 0 for an empty dictionary, else max(jxns.values())
max_junction_count(counts) ==
    IF counts = <<>> THEN 0
    ELSE SetMax({counts[k] : k \in 1..Len(counts)})

junction_count_gap(counts) ==
    max_junction_count(counts) - min_junction_count(counts)

\* lw of the arc's PathPatch, as the exact fraction num / den
\*   utils:   line_width = (jxns[jxn] - min_junction_count) / junction_count_gap
\*            if junction_count_gap > 0 else 0;   lw = line_width + 0.2
\*   new_src: lw = 0.5
LineWidthOverMax(v, count, min_count, gap) ==
    IF v = "utils"
    THEN IF gap > 0
         THEN [num |-> 5 * count + (min_count + gap),
               den |-> 5 * (min_count + gap)]
         ELSE [num |-> 1, den |-> 5]
    ELSE [num |-> 1, den |-> 2]

LineWidth(v, count, min_count, gap) ==
    IF v = "utils"
    THEN IF gap > 0
         THEN [num |-> 5 * (count - min_count) + gap, den |-> 5 * gap]
         ELSE [num |-> 1, den |-> 5]
    ELSE [num |-> 1, den |-> 2]

\* for plotted_count, jxn in enumerate(jxns_sorted_list): ...
JunctionArcs(v, coords, pn, tx_start, passed_y_max, nobam) ==
    LET sorted == jxns_sorted_list(v, pn.jxns)
        ch == CurrentHeight(YMaxOf(v, pn.wiggle, passed_y_max))
        lo == min_junction_count(pn.counts)
        gap == junction_count_gap(pn.counts)
    IN  [k \in 1..Len(sorted) |->
            [lw |-> LineWidth(v, CountOf(pn, sorted[k]), lo, gap)] @@
            Arc(v, k - 1, sorted[k], coords, pn.wiggle, tx_start, ch, nobam)]

---------------------------------------------------------------------------
(* plot_density_single: the depth signal *)

RECURSIVE SumSeq(_)
SumSeq(q) == IF q = <<>> THEN 0 ELSE Head(q) + SumSeq(Tail(q))

\* sum(tmpval) / len(tmpval), kept as the exact fraction sum / n
BucketSum(tmpval) == [sum |-> SumSeq(tmpval), n |-> 1]

BucketMean(tmpval) == [sum |-> SumSeq(tmpval), n |-> Len(tmpval)]

\* new_src: for i in range(len(graphcoords)):
\*              tmpval.append(wiggle[i])
\*              if abs(graphcoords[i] - prevx) > resolution:
\*                  compressed_wiggle.append(sum(tmpval) / len(tmpval))
\*                  compressed_x.append(prevx)
\*                  prevx = graphcoords[i]
\*                  tmpval = []
\* from iteration i on, with the locals as they are when it begins
RECURSIVE Compress(_, _, _, _, _, _, _)
Compress(i, coords, wiggle, res, prevx, tmpval, out) ==
    IF i = Cardinality(DOMAIN coords) THEN out
    ELSE LET t == Append(tmpval, wiggle[i])
         IN  IF Abs(coords[i] - prevx) > res
             THEN Compress(i + 1, coords, wiggle, res, coords[i], <<>>,
                           Append(out, [x |-> prevx] @@ BucketMean(t)))
             ELSE Compress(i + 1, coords, wiggle, res, prevx, t, out)

\* utils: for i in range(len(graph_coords)):
\*            compressed_wiggle.append(wiggle[i])
\*            compressed_x.append(graph_coords[i])
CopyPoints(coords, wiggle) ==
    [k \in 1..Cardinality(DOMAIN coords) |->
        [x |-> coords[k - 1], sum |-> wiggle[k - 1], n |-> 1]]

\* compressed_x and compressed_wiggle, and whether fill_between draws them
\* (utils with no_bam plots a single white point instead)
DensityFill(v, coords, wiggle, res, nobam) ==
    IF v = "utils"
    THEN [filled |-> ~nobam, pts |-> CopyPoints(coords, wiggle)]
    ELSE [filled |-> TRUE,
          pts |-> Compress(0, coords, wiggle, res, coords[0], <<>>, <<>>)]

\* plot_density_single as a whole: the fill, the arcs, and whether the x
\* label says that the y axis is log transformed (utils only; the log
\* argument is used for nothing else)
plot_density_single_no_fill(v, pn, coords, tx_start, passed_y_max, nobam, res, lg) ==
    [fill |-> IF pn.jxns = <<>> THEN [filled |-> FALSE, pts |-> <<>>]
              ELSE DensityFill(v, coords, pn.wiggle, res, nobam),
     arcs |-> JunctionArcs(v, coords, pn, tx_start, passed_y_max, nobam),
     xlabel_log |-> v = "utils" /\ lg \in {2, 10}]

plot_density_single(v, pn, coords, tx_start, passed_y_max, nobam, res, lg) ==
    [fill |-> DensityFill(v, coords, pn.wiggle, res, nobam),
     arcs |-> JunctionArcs(v, coords, pn, tx_start, passed_y_max, nobam),
     xlabel_log |-> v = "utils" /\ lg \in {2, 10}]

---------------------------------------------------------------------------
(* plot_density_single: the x axis *)

\* int(a / b) for b > 0: truncation towards zero
TruncDiv(a, b) == IF a >= 0 THEN a \div b ELSE -((-a) \div b)

\* int(x) for the k-th of pylab.linspace(0, max(graph_coords) - 1, nx_ticks)
XTickBucket(coords, nx_ticks, k) ==
    IF nx_ticks = 1 THEN 0
    ELSE TruncDiv((MaxOf(coords) - Den) * (k - 1), (nx_ticks - 1) * Den)

\* [graph_to_gene[int(x)] for x in pylab.linspace(0, max_graph_coords,
\* nx_ticks)] if show_x_axis, else pylab.xticks([]); failed: KeyError
XTicks(coords, to_gene, show_x_axis, nx_ticks) ==
    IF ~show_x_axis THEN [failed |-> FALSE, labels |-> <<>>]
    ELSE IF \E k \in 1..nx_ticks :
                XTickBucket(coords, nx_ticks, k) \notin DOMAIN to_gene
    THEN [failed |-> TRUE, labels |-> <<>>]
    ELSE [failed |-> FALSE,
          labels |-> [k \in 1..nx_ticks |->
                         to_gene[XTickBucket(coords, nx_ticks, k)]]]

\* for i in range(len(graph_coords)): ... wiggle[i]
DepthTooShort(wiggle, coords) ==
    Cardinality(DOMAIN wiggle) < Cardinality(DOMAIN coords)

---------------------------------------------------------------------------
(* plot_density: the panels *)

\* junctions around a region s..e: the start before, at or after its first
\* base or after its last one, the end before its first base, inside or
\* after its last one
JxnSet(s, e) ==
    {j \in [start : {s - 2, s, s + 1, e + 1, e + 2},
            end : {s - 1, e, e + 1, e + 3}] : j.start < j.end}

\* junctions_dict: distinct junctions, in the order of the dictionary
RECURSIVE JxnLists(_, _)
JxnLists(J, k) ==
    IF k = 0 THEN {<<>>}
    ELSE LET shorter == JxnLists(J, k - 1)
         IN  shorter \cup
             {Append(l, j) : l \in {m \in shorter : Len(m) = k - 1},
                             j \in J}

Distinct(l) == \A a, b \in 1..Len(l) : a # b => l[a] # l[b]

\* wiggle: flat at any depth, or a single peak at either end of the region
Wiggles(n) ==
    {[i \in 0..(n - 1) |-> d] : d \in DepthLevels} \cup
    {[i \in 0..(n - 1) |-> IF i = 0 THEN SetMax(DepthLevels) ELSE 0],
     [i \in 0..(n - 1) |-> IF i = n - 1 THEN SetMax(DepthLevels) ELSE 0]}

\* junctions_dict values: every junction seen once
UnitCounts(l) == [k \in 1..Len(l) |-> 1]

Panels(r, k) ==
    {[wiggle |-> w, jxns |-> l, counts |-> UnitCounts(l)] :
        w \in Wiggles(r.end - r.start + 1),
        l \in {m \in JxnLists(JxnSet(r.start, r.end), k) : Distinct(m)}}

\* regions of the panel specifications: no exons
PlainRegions == {r \in Regions : r.exon_starts = <<>>}

PlainSettings == {st \in SettingsSet : st.exon_scale = st.intron_scale}

NoBamOf(v) == IF v = "utils" THEN BOOLEAN ELSE {FALSE}

\* for i, sample_info in enumerate(read_depths_dict.keys()):
\*     average_read_depth = read_depths_dict[sample_info]
\*     curr_ax = plt.subplot(gs[i, :])        (new axes, without arcs)
NextPanel ==
    /\ pc = "panel"
    /\ panel_i <= n_panels
    /\ panel' \in Panels(region, 1)
    /\ panel_tops' = Append(panel_tops, MaxOf(panel'.wiggle))
    /\ arcs' = <<>>
    /\ fill' = NoArray
    /\ xticks' = <<>>
    /\ pc' = IF variant = "utils" THEN "axis" ELSE "layout"
    /\ UNCHANGED <<input_vars, file_vars, scaling_vars, axis_vars, panel_i,
                   layouts, ybounds, yticks, arrows>>

\* utils: max_used_y_val = average_read_depth.max
\*        fake_y_min = - 0.5 * max_used_y_val
\*        if max_used_y_val % 2 == 1: max_used_y_val += 1
PanelAxis ==
    /\ pc = "axis"
    /\ variant = "utils"
    /\ max_used_y_val' = EvenUp(MaxOf(panel.wiggle))
    /\ fake_y_min' = -Frac(MaxOf(panel.wiggle), 1, 2)
    /\ axis_done' = TRUE
    /\ pc' = "layout"
    /\ UNCHANGED <<input_vars, file_vars, scaling_vars, panel_i, panel,
                   panel_tops, layouts, arcs, ybounds, fill, yticks, arrows,
                   xticks>>

\* plot_density_single(read_depth_object=average_read_depth, ...,
\*                     show_x_axis=(i == len(read_depths_dict) - 1), ...)
\* wiggle[i] raises IndexError in the first loop of the function when the
\* depth array is shorter than graph_coords, before anything is drawn; the
\* tick labels are looked up after the fill and the arcs have been drawn,
\* and a missing key raises KeyError.
PlotDensitySingle ==
    /\ pc = "layout"
    /\ layouts' = layouts + 1
    /\ IF DepthTooShort(panel.wiggle, graph_coords)
       THEN /\ pc' = "error"
            /\ UNCHANGED <<arcs, fill, xticks, panel_i>>
       ELSE LET r == plot_density_single(variant, panel, graph_coords,
                                         region.start, max_used_y_val,
                                         no_bam, resolution, log)
                xt == XTicks(graph_coords, graph_to_gene,
                             panel_i = n_panels, nxticks)
            IN  /\ arcs' = r.arcs
                /\ fill' = r.fill
                /\ xticks' = xt
                /\ IF xt.failed
                   THEN pc' = "error" /\ panel_i' = panel_i
                   ELSE IF variant = "utils"
                   THEN pc' = "bound" /\ panel_i' = panel_i
                   ELSE IF panel_i < n_panels
                   THEN pc' = "panel" /\ panel_i' = panel_i + 1
                   ELSE pc' = "normalize" /\ panel_i' = panel_i
    /\ UNCHANGED <<input_vars, file_vars, scaling_vars, axis_vars, panel,
                   panel_tops, ybounds, yticks, arrows>>

\* new_src: used_yvals = [curr_ax.Ax.get_ylim()[1] for curr_ax in plotted_axes]
\*          max_used_yval = math.ceil(max(used_yvals)); plus one if odd
\*          fake_ymin = -0.5 * max_used_yval
\* The upper y limit of a plotted panel is taken to be its maximum depth.
AxisNormalize ==
    /\ pc = "normalize"
    /\ variant = "new_src"
    /\ LET top == EvenUp(CeilY(SetMax({panel_tops[k] :
                                          k \in 1..Len(panel_tops)})))
       IN  /\ max_used_y_val' = top
           /\ fake_y_min' = -Frac(top, 1, 2)
    /\ axis_done' = TRUE
    /\ panel_i' = 1
    /\ pc' = "bound"
    /\ UNCHANGED <<input_vars, file_vars, scaling_vars, panel, panel_tops,
                   layouts, arcs, ybounds, fill, yticks, arrows, xticks>>

\* pylab.linspace(0, max_used_y_val, nyticks + 1)
Linspace(top, n) == [k \in 1..(n + 1) |-> (top * (k - 1)) \div n]

\* the text of a tick label: "" for a label <= 0, else the label's value
\*   utils: if log in (2, 10): label = numpy.power(log, label)
\* The power is kept as base and exponent; it is positive, so never blank.
TickLabel(t, lg) ==
    IF lg \in {2, 10} THEN [blank |-> FALSE, base |-> lg, value |-> t]
    ELSE [blank |-> t <= 0, base |-> NoLog, value |-> t]

\* set_yticks(universal_y_ticks) and set_yticklabels(curr_y_tick_labels);
\* utils with no_bam: set_yticks([])
YTicksOfLogPositions(v, ticks, lg, nobam) ==
    [positions |-> [k \in 1..Len(ticks) |->
                       IF lg \in {2, 10} THEN lg * ticks[k] ELSE ticks[k]],
     labels |-> [k \in 1..Len(ticks) |-> TickLabel(ticks[k], lg)]]

YTicksOf(v, ticks, lg, nobam) ==
    IF nobam THEN [positions |-> <<>>, labels |-> <<>>]
    ELSE [positions |-> ticks,
          labels |-> [k \in 1..Len(ticks) |->
                         TickLabel(ticks[k],
                                   IF v = "utils" THEN lg ELSE NoLog)]]

\* curr_ax.set_ybound(lower=fake_y_min, upper=1.2 * max_used_y_val)
\* curr_ax.spines["left"].set_bounds(0, max_used_y_val)
\* curr_ax.set_yticks(universal_y_ticks); curr_ax.set_yticklabels(...)
SetYBound ==
    /\ pc = "bound"
    /\ ybounds' = Append(ybounds, [lower |-> fake_y_min,
                                   upper |-> Frac(max_used_y_val, 12, 10),
                                   top |-> max_used_y_val])
    /\ yticks' = Append(yticks, YTicksOf(variant,
                                         Linspace(max_used_y_val, nyticks),
                                         log, no_bam))
    /\ IF panel_i < n_panels
       THEN /\ panel_i' = panel_i + 1
            /\ pc' = IF variant = "utils" THEN "panel" ELSE "bound"
       ELSE /\ panel_i' = panel_i
            /\ pc' = "transcripts"
    /\ UNCHANGED <<input_vars, file_vars, scaling_vars, axis_vars, panel,
                   panel_tops, layouts, arcs, fill, arrows, xticks>>

\* math.ceil(a / b) for b > 0
CeilDiv(a, b) == -((-a) \div b)

\* max_ = graph_coords[transcript.end - tx_start]
\* min_ = graph_coords[transcript.start - tx_start]
\* length = max_ - min_
\* narrows = math.ceil(length / max(graph_coords) * 50)
Narrows(coords, tr, tx_start) ==
    LET max_ == coords[tr.end - tx_start]
        min_ == coords[tr.start - tx_start]
    IN  CeilDiv((max_ - min_) * 50, MaxOf(coords))

\* a[k] on an array of length n: a negative k counts from the end, and a k
\* outside -n..n-1 raises IndexError
IndexOk(k, n) == -n <= k /\ k < n

PyIndex(k, n) == IF k < 0 THEN NegIndex(k, n) ELSE k

\* s = exon.start - tx_start; e = exon.end - tx_start
\* x = [graph_coords[s], graph_coords[e], graph_coords[e], graph_coords[s]]
ExonBox(coords, exon, tx_start) ==
    LET n == Cardinality(DOMAIN coords)
    IN  [left |-> coords[PyIndex(exon.start - tx_start, n)],
         right |-> coords[PyIndex(exon.end - tx_start, n)]]

\* an exon of the transcript makes graph_coords[s] or graph_coords[e] raise
ExonIndexError(coords, tr, tx_start) ==
    \E k \in 1..Len(tr.exons) :
        \/ ~IndexOk(tr.exons[k].start - tx_start, Cardinality(DOMAIN coords))
        \/ ~IndexOk(tr.exons[k].end - tx_start, Cardinality(DOMAIN coords))

\* the exon boxes and the arrows of one transcript: for i in range(narrows),
\*   x = [loc - spread, loc, loc - spread]   if strand == '+' or reverse_minus
\*   x = [loc + spread, loc, loc + spread]   otherwise (flipped)
\* strand is the strand of the transcript's last exon.
ArrowsOf(coords, tr, tx_start, reverse_minus) ==
    [strand |-> tr.strand,
     boxes |-> [k \in 1..Len(tr.exons) |->
                   ExonBox(coords, tr.exons[k], tx_start)],
     narrows |-> Narrows(coords, tr, tx_start),
     flipped |-> ~(tr.strand = "+" \/ reverse_minus)]

plot_transcripts(tx_start, trs, coords, reverse_minus) ==
    [k \in 1..Len(trs) |-> ArrowsOf(coords, trs[k], tx_start, reverse_minus)]

\* utils:   if len(transcripts) > 0: plot_transcripts(...)
\* new_src: plot_transcripts(...)
PlotTranscripts ==
    /\ pc = "transcripts"
    /\ IF \E t \in 1..Len(transcripts) :
              ExonIndexError(graph_coords, transcripts[t], region.start)
       THEN /\ pc' = "error"
            /\ UNCHANGED arrows
       ELSE /\ arrows' = plot_transcripts(region.start, transcripts,
                                          graph_coords,
                                          settings.reverse_minus)
            /\ pc' = "done"
    /\ UNCHANGED <<input_vars, file_vars, scaling_vars, axis_vars, panel_i,
                   panel, panel_tops, layouts, arcs, ybounds, fill, yticks,
                   xticks>>

\* log is an argument of the utils copy only
LogOf(v) == IF v = "utils" THEN {NoLog, 2, 10} ELSE {NoLog}

\* one transcript that spans the region, on either strand, with one exon
\* from its first to its last base
TranscriptsOf(r) ==
    {<<[start |-> r.start, end |-> r.end, strand |-> st,
        exons |-> <<[start |-> r.start, end |-> r.end]>>]>> : st \in Strands}

InitRender ==
    /\ variant \in Variants
    /\ region \in {r \in PlainRegions : r.end - r.start + 1 = MaxLen}
    /\ settings \in {st \in PlainSettings : st.exon_scale = 1}
    /\ no_bam \in NoBamOf(variant)
    /\ n_panels \in 1..MaxPanels
    /\ resolution = DefaultResolution
    /\ log \in LogOf(variant)
    /\ nyticks \in NyTicks
    /\ transcripts \in TranscriptsOf(region)
    /\ nxticks = DefaultNxTicks
    /\ Start

NextRender ==
    \/ CallGetScaling
    \/ NextPanel
    \/ PanelAxis
    \/ PlotDensitySingle
    \/ AxisNormalize
    \/ SetYBound
    \/ PlotTranscripts

SpecRender == InitRender /\ [][NextRender]_vars

\* graph_coords, graph_to_gene = get_scaling(...): the scaling a render holds
\* when its panels are drawn
ScalingAtCall ==
    LET r == get_scaling(region.start, region.end,
                         StrandArg(variant, region),
                         region.exon_starts, region.exon_ends,
                         settings.intron_scale, settings.exon_scale,
                         settings.reverse_minus)
    IN  /\ exon_coords = r.exon_coords
        /\ graph_coords = r.graph_coords
        /\ graph_to_gene = r.graph_to_gene
        /\ forward = r.forward

\* plot_density_single for the first panel of a render: the state in which
\* plot_density calls it
AtLayoutCall ==
    /\ panel_i = 1
    /\ panel_tops = <<MaxOf(panel.wiggle)>>
    /\ IF variant = "utils"
       THEN /\ max_used_y_val = EvenUp(MaxOf(panel.wiggle))
            /\ fake_y_min = -Frac(MaxOf(panel.wiggle), 1, 2)
            /\ axis_done = TRUE
       ELSE /\ max_used_y_val = 0
            /\ fake_y_min = 0
            /\ axis_done = FALSE
    /\ pc = "layout"
    /\ layouts = 0
    /\ arcs = <<>>
    /\ ybounds = <<>>
    /\ fill = NoArray
    /\ yticks = <<>>
    /\ arrows = <<>>
    /\ xticks = <<>>
    /\ gtf = NoCall
    /\ bam = NoCall

InitLayout ==
    /\ variant \in Variants
    /\ region \in {r \in PlainRegions : r.strand = "-"}
    /\ settings \in {st \in PlainSettings : st.exon_scale = 1}
    /\ no_bam \in NoBamOf(variant)
    /\ n_panels = 1
    /\ PlainInputs
    /\ ScalingAtCall
    /\ panel \in Panels(region, MaxJxns)
    /\ AtLayoutCall

NextLayout == PlotDensitySingle

SpecLayout == InitLayout /\ [][NextLayout]_vars

\* values of junctions_dict: the number of reads that support a junction
Counts == {5, 10, 20}

\* junctions that start at or after the first base of the region and end at
\* or right after its last base
InnerJxns(s, e) == {j \in JxnSet(s, e) : j.start >= s /\ j.end <= e + 1}

\* panels whose junctions carry any counts, over a flat depth signal
CountedPanels(r, k) ==
    UNION {{[wiggle |-> [i \in 0..(r.end - r.start) |-> SetMax(DepthLevels)],
             jxns |-> l, counts |-> c] : c \in [1..Len(l) -> Counts]} :
           l \in {m \in JxnLists(InnerJxns(r.start, r.end), k) : Distinct(m)}}

\* plot_density_single for a panel whose junctions have different counts
InitWidth ==
    /\ variant \in Variants
    /\ region \in {r \in PlainRegions : r.strand = "-"
                                        /\ r.end - r.start + 1 = MaxLen}
    /\ settings \in {st \in PlainSettings : st.exon_scale = 1}
    /\ no_bam \in NoBamOf(variant)
    /\ n_panels = 1
    /\ PlainInputs
    /\ ScalingAtCall
    /\ panel \in CountedPanels(region, MaxJxns + 1)
    /\ AtLayoutCall

SpecWidth == InitWidth /\ [][NextLayout]_vars

\* values of settings["resolution"]: -0.5, 0, 0.5 and 1; the utils copy has
\* no such setting
Resolutions == {-DefaultResolution, 0, DefaultResolution, Den}

ResolutionsOf(v) == IF v = "new_src" THEN Resolutions ELSE {DefaultResolution}

\* depth signals that change from base to base: rising, falling, a peak on
\* the first base, and flat
RampWiggles(n) ==
    LET unit == YDen \div 2
    IN  {[i \in 0..(n - 1) |-> Min(i + 1, MaxHalfDepth) * unit],
         [i \in 0..(n - 1) |-> Min(n - i, MaxHalfDepth) * unit],
         [i \in 0..(n - 1) |-> IF i = 0 THEN MaxHalfDepth * unit ELSE unit],
         [i \in 0..(n - 1) |-> unit]}

\* regions whose exons do not reach beyond the region
InnerRegions ==
    {r \in Regions :
        /\ ValidRegion(r)
        /\ \A k \in 1..Len(r.exon_starts) :
               r.exon_starts[k] >= r.start /\ r.exon_ends[k] <= r.end}

\* plot_density_single over coordinate maps with exons and introns at
\* different scales, and any resolution
InitCompress ==
    /\ variant \in Variants
    /\ region \in {r \in InnerRegions : r.strand = "-"}
    /\ settings \in SettingsSet
    /\ no_bam = FALSE
    /\ n_panels = 1
    /\ resolution \in ResolutionsOf(variant)
    /\ log = NoLog
    /\ nyticks \in NyTicks
    /\ transcripts = <<>>
    /\ nxticks = DefaultNxTicks
    /\ ScalingAtCall
    /\ panel \in {[wiggle |-> w, jxns |-> <<>>, counts |-> <<>>] :
                     w \in RampWiggles(region.end - region.start + 1)}
    /\ AtLayoutCall

SpecCompress == InitCompress /\ [][NextLayout]_vars

\* depth arrays of length n: rising by half a read from base to base
RisingWiggle(n) ==
    [i \in 0..(n - 1) |-> Min(i + 1, MaxHalfDepth) * (YDen \div 2)]

\* panels whose depth array is one sample shorter or longer than the region,
\* or as long as it, with at most one junction
DepthPanels(r) ==
    {[wiggle |-> RisingWiggle(n), jxns |-> l, counts |-> UnitCounts(l)] :
        n \in (r.end - r.start)..(r.end - r.start + 2),
        l \in JxnLists(InnerJxns(r.start, r.end), 1)}

\* one transcript that spans the region, with one exon that may begin one
\* base before the region or end one base after it
ExonTranscriptsOf(r) ==
    {<<[start |-> r.start, end |-> r.end, strand |-> st,
        exons |-> <<[start |-> a, end |-> b]>>]>> :
        st \in Strands,
        a \in {x \in (r.start - 1)..r.end : x # r.start + 1},
        b \in {y \in r.start..(r.end + 1) : y # r.start + 1}}

\* a render of one panel, from the call of plot_density_single on, for any
\* depth array and any exon the caller hands in
InitInput ==
    /\ variant \in Variants
    /\ region \in {r \in PlainRegions : r.strand = "-"
                                        /\ r.end - r.start + 1 = MaxLen}
    /\ settings \in {st \in PlainSettings : st.exon_scale = 1}
    /\ no_bam = FALSE
    /\ n_panels = 1
    /\ resolution = DefaultResolution
    /\ log = NoLog
    /\ nyticks \in NyTicks
    /\ transcripts \in {tr \in ExonTranscriptsOf(region) :
                            tr[1].exons[1].start <= tr[1].exons[1].end}
    /\ nxticks = DefaultNxTicks
    /\ ScalingAtCall
    /\ panel \in DepthPanels(region)
    /\ AtLayoutCall

NextInput ==
    \/ PlotDensitySingle
    \/ AxisNormalize
    \/ SetYBound
    \/ PlotTranscripts

SpecInput == InitInput /\ [][NextInput]_vars

\* values of settings["nxticks"]
NxTicks == {1, 2, DefaultNxTicks, DefaultNxTicks + 1}

\* plot_density_single with the x axis shown, over coordinate maps with
\* exons and introns at different scales, and any number of x ticks
InitTicks ==
    /\ variant \in Variants
    /\ region \in InnerRegions
    /\ settings \in SettingsSet
    /\ no_bam = FALSE
    /\ n_panels = 1
    /\ resolution = DefaultResolution
    /\ log = NoLog
    /\ nyticks \in NyTicks
    /\ transcripts = <<>>
    /\ nxticks \in NxTicks
    /\ ScalingAtCall
    /\ panel = [wiggle |-> [i \in 0..(region.end - region.start) |->
                               SetMax(DepthLevels)],
                jxns |-> <<>>, counts |-> <<>>]
    /\ AtLayoutCall

SpecTicks == InitTicks /\ [][NextLayout]_vars

\* scales a configuration can hold: the dictionary is not validated
ConfigScales == Scales \cup {-1, 0}

\* plot_density called with any configuration
InitConfig ==
    /\ variant \in Variants
    /\ region \in {r \in Regions : ValidRegion(r)}
    /\ settings \in [intron_scale : ConfigScales, exon_scale : ConfigScales,
                      reverse_minus : BOOLEAN]
    /\ no_bam = FALSE
    /\ n_panels = 1
    /\ resolution \in ResolutionsOf(variant)
    /\ log = NoLog
    /\ nyticks \in NyTicks
    /\ transcripts = <<>>
    /\ nxticks = DefaultNxTicks
    /\ Start

SpecConfig == InitConfig /\ [][Next]_vars

---------------------------------------------------------------------------
(* index_gtf *)

\* A file is named by its kind and by how many ".sorted" its name carries:
\* <<"gtf", d>> is X(.sorted)^d.gtf, <<"gz", d>> that name plus ".gz",
\* <<"tbi", d>> that name plus ".gz.tbi".
GtfFile(kind, d) == <<kind, d>>

\* is_gtf(input_gtf): 0 not a gtf file, 1 a plain one, 11 a gzipped one
GtfKinds == {0, 1, 11}

\* the files that may exist before the top-level call, the input aside
OldFiles == {GtfFile("gz", 0), GtfFile("tbi", 0), GtfFile("gtf", 1),
             GtfFile("gz", 1)}

\* the outcomes of pysam.tabix_index
TabixOutcomes == {"ok", "could not open", "other OSError"}

\* plot_density has not been called; its inputs are of no concern here
Parked ==
    /\ variant = "utils"
    /\ region = [start |-> BaseStart, end |-> BaseStart, strand |-> "+",
                 exon_starts |-> <<>>, exon_ends |-> <<>>]
    /\ settings = [intron_scale |-> 1, exon_scale |-> 1,
                   reverse_minus |-> FALSE]
    /\ no_bam = FALSE
    /\ n_panels = 1
    /\ PlainInputs
    /\ PlotStart

\* index_gtf(input_gtf, sort_gtf, retry=0): a top-level call
InitGtf ==
    /\ Parked
    /\ bam = NoCall
    /\ \E sg \in BOOLEAN, old \in SUBSET OldFiles :
           gtf = [pc |-> "call", sort_gtf |-> sg, retry |-> 0, name |-> 0,
                  index |-> FALSE, output |-> GtfFile("gz", 0),
                  files |-> old \cup {GtfFile("gtf", 0)}, sorts |-> 0,
                  result |-> "none"]

\* output_gtf: input_gtf if it is gzipped already, else input_gtf + ".gz"
OutputOf(kind, d) ==
    IF kind \div 10 > 0 THEN GtfFile("gtf", d) ELSE GtfFile("gz", d)

\* output_gtf + ".tbi"
TbiOf(kind, d) ==
    IF kind \div 10 > 0 THEN GtfFile("gtf.tbi", d) ELSE GtfFile("tbi", d)

\* index: output_gtf or its .tbi does not exist (the elif compares
\* getctime(output_gtf) with itself and never holds)
NeedsIndex(files, kind, d) ==
    OutputOf(kind, d) \notin files \/ TbiOf(kind, d) \notin files

\* lines 38-58: the entry of a call, up to the choice between the OSError
\* of a spent retry, the sort and the index step
GtfEnter ==
    /\ gtf.pc = "call"
    /\ \E kind \in GtfKinds :
           IF kind % 10 # 1
           THEN gtf' = [gtf EXCEPT !.pc = "raised", !.result = "ValueError"]
           ELSE IF gtf.sort_gtf /\ gtf.retry > 1
           THEN gtf' = [gtf EXCEPT !.pc = "raised", !.result = "OSError"]
           ELSE gtf' = [gtf EXCEPT
                           !.index = NeedsIndex(gtf.files, kind, gtf.name),
                           !.output = OutputOf(kind, gtf.name),
                           !.pc = IF gtf.sort_gtf THEN "sort"
                                  ELSE IF NeedsIndex(gtf.files, kind,
                                                     gtf.name)
                                  THEN "index" ELSE "returned",
                           !.result = IF ~gtf.sort_gtf
                                         /\ ~NeedsIndex(gtf.files, kind,
                                                        gtf.name)
                                      THEN "path" ELSE "none"]
    /\ UNCHANGED <<input_vars, scaling_vars, axis_vars, pc, panel_i, panel,
                   panel_tops, layouts, arcs, ybounds, fill, yticks, arrows,
                   xticks, bam>>

\* lines 58-100: input_gtf becomes the .sorted.gtf name and output_gtf its
\* .gz; if both exist the call returns, else the file is sorted into the new
\* name (open(input_gtf, "w+") may fail, and the fallback handle is opened
\* for reading, so the write raises)
GtfSort ==
    /\ gtf.pc = "sort"
    /\ LET d == gtf.name + 1
       IN  IF GtfFile("gtf", d) \in gtf.files /\ GtfFile("gz", d) \in gtf.files
           THEN gtf' = [gtf EXCEPT !.pc = "returned", !.result = "path",
                                   !.name = d,
                                   !.output = GtfFile("gz", d)]
           ELSE \E opened \in BOOLEAN :
                    IF ~opened
                    THEN gtf' = [gtf EXCEPT !.pc = "raised",
                                            !.result = "OSError",
                                            !.name = d,
                                            !.output = GtfFile("gz", d)]
                    ELSE gtf' = [gtf EXCEPT
                                    !.name = d,
                                    !.output = GtfFile("gz", d),
                                    !.files = @ \cup {GtfFile("gtf", d)},
                                    !.sorts = @ + 1,
                                    !.pc = IF gtf.index THEN "index"
                                           ELSE "returned",
                                    !.result = IF gtf.index THEN "none"
                                               ELSE "path"]
    /\ UNCHANGED <<input_vars, scaling_vars, axis_vars, pc, panel_i, panel,
                   panel_tops, layouts, arcs, ybounds, fill, yticks, arrows,
                   xticks, bam>>

\* lines 102-120: pysam.tabix_index(input_gtf, ...); an OSError other than
\* "could not open" makes the call return
\* index_gtf(input_gtf=input_gtf, sort_gtf=True, retry=retry + 1)
GtfIndex ==
    /\ gtf.pc = "index"
    /\ \E outcome \in TabixOutcomes :
           IF outcome = "ok"
           THEN gtf' = [gtf EXCEPT
                           !.files = @ \cup {GtfFile("gz", gtf.name),
                                             GtfFile("tbi", gtf.name)},
                           !.pc = "returned", !.result = "path"]
           ELSE IF outcome = "could not open"
           THEN gtf' = [gtf EXCEPT !.pc = "raised", !.result = "OSError"]
           ELSE gtf' = [gtf EXCEPT !.pc = "call", !.sort_gtf = TRUE,
                                   !.retry = @ + 1]
    /\ UNCHANGED <<input_vars, scaling_vars, axis_vars, pc, panel_i, panel,
                   panel_tops, layouts, arcs, ybounds, fill, yticks, arrows,
                   xticks, bam>>

NextGtf == GtfEnter \/ GtfSort \/ GtfIndex

\* the call runs to its end: nothing but the call itself is scheduled
SpecGtf == InitGtf /\ [][NextGtf]_vars /\ WF_vars(NextGtf)

---------------------------------------------------------------------------
(* read_reads_depth_from_bam *)

MaxBams == 3         \* longest bam_list

\* what reading one BAM file comes to in __read_from_bam__:
\*   "ok"       it returns [{bam: tmp}, idx]
\*   "oserror"  OSError or IOError is caught and it returns None
\*   "none"     determine_depth returns None, and tmp.sequence = ... raises
\*              AttributeError before the test for None
ReadOutcomes == {"ok", "oserror", "none"}

\* values of n_jobs: one job, or a pool of workers
JobCounts == {1, 2}

RECURSIVE OutcomeLists(_)
OutcomeLists(n) ==
    IF n = 0 THEN {<<>>}
    ELSE {Append(l, o) : l \in OutcomeLists(n - 1), o \in ReadOutcomes}

\* a call of read_reads_depth_from_bam: bam_list is 1..Len(reads)
InitBam ==
    /\ Parked
    /\ gtf = NoCall
    /\ \E n \in 1..MaxBams, jobs \in JobCounts :
           \E reads \in OutcomeLists(n) :
               bam = [pc |-> "run", n_jobs |-> jobs, reads |-> reads,
                      finished |-> <<>>, res |-> <<>>, result |-> "none"]

\* if len(res) == 0: exit(1);  return res
Checked(res) ==
    IF res = <<>> THEN [result |-> "exit", res |-> <<>>]
    ELSE [result |-> "returned", res |-> res]

\* for i in [...]: res.update(__read_from_bam__(i)[0])
\* None[0] raises TypeError, and so does the AttributeError of "none" end the
\* loop: except Exception ... exit(err)
RECURSIVE SequentialLoop(_, _, _)
SequentialLoop(reads, i, res) ==
    IF i > Len(reads) THEN [failed |-> FALSE, res |-> res]
    ELSE IF reads[i] = "ok" THEN SequentialLoop(reads, i + 1, Append(res, i))
    ELSE [failed |-> TRUE, res |-> res]

\* the call with n_jobs == 1, as a whole
SequentialRead(reads) ==
    LET r == SequentialLoop(reads, 1, <<>>)
    IN  IF r.failed THEN [result |-> "exit", res |-> <<>>]
        ELSE Checked(r.res)

\* temp = [x for x in temp if x is not None]; sorted(temp, key=idx);
\* res.update(i[0]): p.map gives the results in the order of bam_list
RECURSIVE Collected(_, _)
Collected(reads, i) ==
    IF i = 0 THEN <<>>
    ELSE IF reads[i] = "ok" THEN Append(Collected(reads, i - 1), i)
    ELSE Collected(reads, i - 1)

\* n_jobs == 1: the loop runs in the calling process
BamSequential ==
    /\ bam.pc = "run"
    /\ bam.n_jobs = 1
    /\ bam' = [bam EXCEPT !.pc = "done",
                          !.finished = [k \in 1..Len(bam.reads) |-> k],
                          !.result = SequentialRead(bam.reads).result,
                          !.res = SequentialRead(bam.reads).res]
    /\ UNCHANGED <<input_vars, scaling_vars, axis_vars, pc, panel_i, panel,
                   panel_tops, layouts, arcs, ybounds, fill, yticks, arrows,
                   xticks, gtf>>

\* with Pool(min(n_jobs, len(bam_list))) as p: p.map(__read_from_bam__, ...)
\* the workers finish in any order
BamWorkerFinish ==
    /\ bam.pc = "run"
    /\ bam.n_jobs > 1
    /\ \E i \in 1..Len(bam.reads) :
           /\ \A k \in 1..Len(bam.finished) : bam.finished[k] # i
           /\ bam' = [bam EXCEPT !.finished = Append(@, i)]
    /\ UNCHANGED <<input_vars, scaling_vars, axis_vars, pc, panel_i, panel,
                   panel_tops, layouts, arcs, ybounds, fill, yticks, arrows,
                   xticks, gtf>>

\* p.map returns once every worker has finished, or raises the exception
\* of a worker (caught: exit(err)); then the None results are dropped
BamCollect ==
    /\ bam.pc = "run"
    /\ bam.n_jobs > 1
    /\ Len(bam.finished) = Len(bam.reads)
    /\ IF \E k \in 1..Len(bam.reads) : bam.reads[k] = "none"
       THEN bam' = [bam EXCEPT !.pc = "done", !.result = "exit"]
       ELSE LET r == Checked(Collected(bam.reads, Len(bam.reads)))
            IN  bam' = [bam EXCEPT !.pc = "done", !.result = r.result,
                                   !.res = r.res]
    /\ UNCHANGED <<input_vars, scaling_vars, axis_vars, pc, panel_i, panel,
                   panel_tops, layouts, arcs, ybounds, fill, yticks, arrows,
                   xticks, gtf>>

NextBam == BamSequential \/ BamWorkerFinish \/ BamCollect

SpecBam == InitBam /\ [][NextBam]_vars

---------------------------------------------------------------------------
(* Properties of get_scaling, checked under Spec *)

RegionLen == region.end - region.start + 1

Offsets == 0..(RegionLen - 1)

\* the plot coordinates in the order the loop recorded them
Walk == [k \in Offsets |-> graph_coords[Slot(k, RegionLen, forward)]]

\* the offset the walk visits last
LastWalked == IF forward THEN RegionLen - 1 ELSE 0

\* 1/exon_scale for an exonic offset, 1/intron_scale for any other
StepOfOffset(o) ==
    IF exon_coords[o] = 1 THEN Den \div settings.exon_scale
    ELSE Den \div settings.intron_scale

RECURSIVE SumOfSteps(_)
SumOfSteps(S) ==
    IF S = {} THEN 0
    ELSE LET o == CHOOSE y \in S : TRUE
         IN  StepOfOffset(o) + SumOfSteps(S \ {o})

\* offset i maps to slot length - 1 - i
MirrorFill(a) ==
    LET n == Cardinality(DOMAIN a)
    IN  [s \in 0..(n - 1) |-> a[n - 1 - s]]

\* an exon's offsets, clipped to the region
ClippedExonOffsets ==
    {i \in Offsets :
        \E k \in 1..Len(region.exon_starts) :
            /\ region.exon_starts[k] - region.start <= i
            /\ i < region.exon_ends[k] - region.start}

MixedMask == (\E o \in Offsets : exon_coords[o] = 1)
             /\ (\E o \in Offsets : exon_coords[o] = 0)

\* C1 as stated: the last plot coordinate recorded equals the sum of the
\* steps of ALL offsets of the region.
C1_FinalIsSumOfAll ==
    pc = "panel" => Walk[RegionLen - 1] = SumOfSteps(Offsets)

\* C1, amended: the last plot coordinate recorded equals the sum of the steps
\* of all offsets but the one walked last (the loop records x before it
\* advances x).
C1_FinalIsSumBeforeLast ==
    pc = "panel" =>
        Walk[RegionLen - 1] = SumOfSteps(Offsets \ {LastWalked})

C1_Witness ==
    /\ pc = "panel"
    /\ RegionLen = MaxLen
    /\ MixedMask
    /\ settings.exon_scale # settings.intron_scale
    /\ Walk[RegionLen - 1] > 0

\* C2: the plot coordinates are monotonic non-decreasing in the order the
\* loop records them, in the forward and in the reverse-minus branch.
C2_WalkMonotonic ==
    pc = "panel" =>
        \A k \in Offsets : k + 1 \in Offsets => Walk[k] <= Walk[k + 1]

C2_Witness ==
    /\ pc = "panel"
    /\ ~forward
    /\ RegionLen >= 2
    /\ MixedMask
    /\ graph_coords[0] > graph_coords[RegionLen - 1]

\* C8 as stated: the array is filled back-to-front exactly when reverse_minus
\* is set and the region is on the minus strand; otherwise offset i holds the
\* cumulative coordinate of the ascending walk.
C8_MirroredIffMinusAndReverse ==
    pc = "panel" =>
        /\ ~forward <=> (settings.reverse_minus /\ region.strand = "-")
        /\ (region.strand = "+" \/ ~settings.reverse_minus) =>
               \A i \in Offsets : graph_coords[i] = SumOfSteps(0..(i - 1))

C10_ExonsClipped ==
    pc = "panel" =>
        /\ DOMAIN exon_coords = Offsets
        /\ \A i \in Offsets : exon_coords[i] = 1 <=> i \in ClippedExonOffsets

\* C23 as stated: for every key k of graph_to_gene, the genomic coordinate
\* g = graph_to_gene[k] lies in [tx_start, tx_end] and the plot coordinate of
\* g has floor k, in the forward and in the reverse-minus branch.
C23_PlotToGeneInverts ==
    pc = "panel" =>
        \A k \in DOMAIN graph_to_gene :
            LET g == graph_to_gene[k]
            IN  /\ region.start <= g /\ g <= region.end
                /\ IntOf(graph_coords[g - region.start]) = k

---------------------------------------------------------------------------
(* Properties of plot_density_single, checked under SpecLayout *)

ArcIds == 1..Len(arcs)

\* the endpoint lies beyond the boundary of the region
Beyond(g) == g < region.start \/ g > region.end

\* C3 as stated: a junction with both ends inside [tx_start, tx_end] has no
\* endpoint flagged modified; a junction with exactly one end beyond the
\* boundary has exactly that endpoint flagged.
C3_FlagsFollowRegion ==
    (variant = "utils" /\ layouts > 0) =>
        \A a \in ArcIds :
            /\ (~Beyond(arcs[a].start) /\ ~Beyond(arcs[a].end)) =>
                   (~arcs[a].ss1_modified /\ ~arcs[a].ss2_modified)
            /\ (Beyond(arcs[a].start) /\ ~Beyond(arcs[a].end)) =>
                   (arcs[a].ss1_modified /\ ~arcs[a].ss2_modified)
            /\ (~Beyond(arcs[a].start) /\ Beyond(arcs[a].end)) =>
                   (~arcs[a].ss1_modified /\ arcs[a].ss2_modified)

\* C3, amended: the left endpoint is flagged exactly when start <= tx_start
\* or start > tx_end + 1 (its index start - tx_start - 1 leaves the array),
\* the right endpoint exactly when end is beyond the boundary; so a junction
\* with tx_start < start and end <= tx_end has neither endpoint flagged.
C3_FlagsFollowIndex ==
    (variant = "utils" /\ layouts > 0) =>
        \A a \in ArcIds :
            /\ arcs[a].ss1_modified <=>
                   (arcs[a].start <= region.start
                    \/ arcs[a].start > region.end + 1)
            /\ arcs[a].ss2_modified <=> Beyond(arcs[a].end)
            /\ (region.start < arcs[a].start /\ arcs[a].end <= region.end) =>
                   (~arcs[a].ss1_modified /\ ~arcs[a].ss2_modified)

C3_Witness ==
    /\ variant = "utils"
    /\ layouts > 0
    /\ \E a \in ArcIds : arcs[a].start = region.start
                         /\ arcs[a].end <= region.end
                         /\ arcs[a].ss1_modified /\ ~arcs[a].ss2_modified
    /\ \E a \in ArcIds : ~arcs[a].ss1_modified /\ arcs[a].ss2_modified

\* every control point of the arc is on or below the baseline, the two
\* inner ones strictly below it
BelowBaseline(arc) ==
    /\ \A k \in 1..4 : arc.pts[k][2] <= 0
    /\ arc.pts[2][2] < 0 /\ arc.pts[3][2] < 0

\* every control point of the arc is on or above the depth at its anchor,
\* the two inner ones strictly above it
AboveSignal(arc) ==
    /\ arc.pts[1][2] >= arc.left_dens /\ arc.pts[2][2] > arc.left_dens
    /\ arc.pts[4][2] >= arc.right_dens /\ arc.pts[3][2] > arc.right_dens

\* C4 as stated: junctions of even rank are drawn above the coverage signal
\* and junctions of odd rank below the baseline.
C4_EvenAboveOddBelow ==
    layouts > 0 =>
        \A a \in ArcIds :
            IF arcs[a].plotted_count % 2 = 0
            THEN ~arcs[a].bottom /\ AboveSignal(arcs[a])
            ELSE arcs[a].bottom /\ BelowBaseline(arcs[a])

\* C4, amended: consecutive ranks alternate sides; in new_src even ranks are
\* drawn above the signal and odd ranks below the baseline, in utils even
\* ranks are drawn below the baseline and odd ranks above the signal.
C4_SidesAlternate ==
    layouts > 0 =>
        /\ \A a \in ArcIds :
               /\ arcs[a].plotted_count = a - 1
               /\ arcs[a].bottom <=>
                      (IF variant = "utils" THEN (a - 1) % 2 = 0
                       ELSE (a - 1) % 2 = 1)
               /\ IF arcs[a].bottom THEN BelowBaseline(arcs[a])
                  ELSE AboveSignal(arcs[a])
        /\ \A a \in ArcIds :
               a + 1 \in ArcIds => arcs[a].bottom # arcs[a + 1].bottom

C4_Witness ==
    /\ layouts > 0
    /\ variant = "utils"
    /\ Len(arcs) = MaxJxns
    /\ arcs[1].bottom
    /\ ~arcs[2].bottom

DictOrders ==
    {l \in JxnLists({panel.jxns[k] : k \in 1..Len(panel.jxns)},
                    Len(panel.jxns)) :
        Len(l) = Len(panel.jxns) /\ Distinct(l)}

\* C16 as stated: junctions are laid out by span descending and ties are
\* broken deterministically: the same junctions with the same counts give the
\* same layout order and the same sides, whatever order the dictionary holds
\* them in.
C16_SpanOrderDeterministic ==
    layouts > 0 =>
        /\ \A a \in ArcIds :
               a + 1 \in ArcIds => Span(arcs[a]) >= Span(arcs[a + 1])
        /\ \A l \in DictOrders :
               LET other == JunctionArcs(variant, graph_coords,
                                         [panel EXCEPT !.jxns = l],
                                         region.start, max_used_y_val, no_bam)
               IN  \A a \in ArcIds :
                       /\ other[a].start = arcs[a].start
                       /\ other[a].end = arcs[a].end
                       /\ other[a].bottom = arcs[a].bottom

---------------------------------------------------------------------------
(* Properties of the depth signal, checked under SpecCompress *)

FillIds == 1..Len(fill.pts)

\* C13: the compressed signal has at most as many points as the input, and
\* every compressed value (the fraction sum / n) lies between the least and
\* the greatest input depth, for every resolution > 0.
C13_CompressedWithinInput ==
    (layouts > 0 /\ resolution > 0) =>
        LET depths == {panel.wiggle[i] : i \in DOMAIN panel.wiggle}
        IN  /\ Len(fill.pts) <= RegionLen
            /\ \A k \in FillIds :
                   /\ fill.pts[k].n > 0
                   /\ fill.pts[k].n * SetMin(depths) <= fill.pts[k].sum
                   /\ fill.pts[k].sum <= fill.pts[k].n * SetMax(depths)

C13_Witness ==
    /\ variant = "new_src"
    /\ layouts > 0
    /\ resolution > 0
    /\ Len(fill.pts) < RegionLen
    /\ \E k \in FillIds :
           LET depths == {panel.wiggle[i] : i \in DOMAIN panel.wiggle}
           IN  /\ fill.pts[k].n >= 2
               /\ fill.pts[k].n * SetMin(depths) < fill.pts[k].sum
               /\ fill.pts[k].sum < fill.pts[k].n * SetMax(depths)

\* C14 as stated: the x values of the compressed signal are strictly
\* increasing, for the forward and for the reverse-minus coordinate map and
\* every resolution > 0.
C14_CompressedXIncreasing ==
    (variant = "new_src" /\ layouts > 0 /\ resolution > 0) =>
        \A k \in FillIds :
            k + 1 \in FillIds => fill.pts[k].x < fill.pts[k + 1].x

\* C15 as stated: with resolution <= 0 the compressor is the identity: one
\* point per input sample, with the sample's own coordinate and depth, and
\* no division by zero.
C15_IdentityWhenNotPositive ==
    (variant = "new_src" /\ layouts > 0 /\ resolution <= 0) =>
        /\ Len(fill.pts) = RegionLen
        /\ \A k \in FillIds :
               /\ fill.pts[k].n > 0
               /\ fill.pts[k].x = graph_coords[k - 1]
               /\ fill.pts[k].sum = fill.pts[k].n * panel.wiggle[k - 1]

\* the number of samples accumulated into the buckets before bucket k
RECURSIVE SamplesBefore(_)
SamplesBefore(k) ==
    IF k = 1 THEN 0 ELSE SamplesBefore(k - 1) + fill.pts[k - 1].n

\* C25 as stated: every input sample is accumulated into exactly one emitted
\* bucket (the buckets take their samples in input order, so together they
\* hold all RegionLen of them, the samples after the last close included),
\* and each bucket is emitted at the coordinate of the first sample
\* accumulated into it.
C25_EverySampleInItsBucket ==
    (variant = "new_src" /\ layouts > 0 /\ resolution > 0) =>
        /\ SamplesBefore(Len(fill.pts) + 1) = RegionLen
        /\ \A k \in FillIds :
               fill.pts[k].x = graph_coords[SamplesBefore(k)]

---------------------------------------------------------------------------
(* Properties of the x axis, checked under SpecTicks *)

\* C24 as stated: for every exon_scale > 0, intron_scale > 0 and nx_ticks,
\* the bucket int(t) of every x tick t taken evenly from 0 to
\* max(graph_coords) - 1 is a key of graph_to_gene, so the label lookup of
\* plot_density_single never fails.
C24_TickBucketsAreKeys ==
    (layouts > 0 /\ settings.exon_scale > 0 /\ settings.intron_scale > 0) =>
        /\ pc # "error"
        /\ \A k \in 1..nxticks :
               XTickBucket(graph_coords, nxticks, k) \in DOMAIN graph_to_gene

---------------------------------------------------------------------------
(* Properties of the stroke width, checked under SpecWidth *)

\* the count of the junction an arc was drawn for
ArcCount(a) ==
    panel.counts[CHOOSE k \in 1..Len(panel.jxns) :
                     /\ panel.jxns[k].start = arcs[a].start
                     /\ panel.jxns[k].end = arcs[a].end]

MinCountInSet == SetMin({panel.counts[k] : k \in 1..Len(panel.counts)})

MaxCountInSet == SetMax({panel.counts[k] : k \in 1..Len(panel.counts)})

\* C12: the stroke width of every junction is
\* 0.2 + (count - minCountInSet) / (maxCountInSet - minCountInSet), and
\* exactly 0.2 when maxCount = minCount; so counts 5 and 20 give exactly 0.2
\* and 1.2, and every width lies in [0.2, 1.2].  (utils; widths are the
\* fractions num / den.)
C12_WidthByCount ==
    (variant = "utils" /\ layouts > 0) =>
        \A a \in ArcIds :
            LET w == arcs[a].lw
                c == ArcCount(a)
                gap == MaxCountInSet - MinCountInSet
            IN  /\ w.den > 0
                /\ IF gap = 0 THEN 5 * w.num = w.den
                   ELSE 5 * gap * w.num =
                            (gap + 5 * (c - MinCountInSet)) * w.den
                /\ w.den <= 5 * w.num /\ 5 * w.num <= 6 * w.den
                /\ (MinCountInSet = 5 /\ MaxCountInSet = 20 /\ c = 5) =>
                       5 * w.num = w.den
                /\ (MinCountInSet = 5 /\ MaxCountInSet = 20 /\ c = 20) =>
                       5 * w.num = 6 * w.den

C12_Witness ==
    /\ variant = "utils"
    /\ layouts > 0
    /\ \E a, b, c \in ArcIds :
           /\ ArcCount(a) = 5 /\ 5 * arcs[a].lw.num = arcs[a].lw.den
           /\ ArcCount(b) = 20 /\ 5 * arcs[b].lw.num = 6 * arcs[b].lw.den
           /\ ArcCount(c) = 10 /\ 15 * arcs[c].lw.num = 8 * arcs[c].lw.den

---------------------------------------------------------------------------
(* Properties of plot_density, checked under SpecRender *)

\* ceiling(max of all panel maxima), plus one if odd
SharedUpperBound ==
    EvenUp(CeilY(SetMax({panel_tops[k] : k \in 1..Len(panel_tops)})))

\* C5 as stated: every panel of a render gets the same upper y bound,
\* ceiling(max of all panel maxima), plus one if that is odd.
C5_SharedUpperBound ==
    pc = "done" =>
        \A p \in 1..Len(ybounds) : ybounds[p].top = SharedUpperBound

\* C6 as stated: the fake lower bound of a panel is -0.5 times the final
\* upper bound of that panel.
C6_FakeLowerIsHalfUpper ==
    \A p \in 1..Len(ybounds) : 2 * ybounds[p].lower = -ybounds[p].top

\* C7 as stated: the coordinate map and the axis bound are both computed
\* before the first junction layout begins, and no later step changes either.
C7_ComputedBeforeLayoutThenFrozen ==
    [][/\ layouts' > layouts => (pc # "scaling" /\ axis_done)
       /\ layouts > 0 =>
              /\ graph_coords' = graph_coords
              /\ graph_to_gene' = graph_to_gene
              /\ max_used_y_val' = max_used_y_val
              /\ fake_y_min' = fake_y_min]_vars

\* C26 as stated: all four control points of every arc below the baseline
\* have y within [fake lower bound, 0], the space plot_density reserves
\* below the baseline of the panel, for every maximum depth of the panel.
C26_BottomArcInReservedSpace ==
    (pc = "bound" /\ axis_done) =>
        \A a \in ArcIds :
            arcs[a].bottom =>
                \A k \in 1..4 : /\ fake_y_min <= arcs[a].pts[k][2]
                                /\ arcs[a].pts[k][2] <= 0

\* C18: with log 2 or 10 only the tick label text changes (the label is
\* base^tick): the tick positions, the upper and the fake lower bound, and
\* the control points and stroke widths of the junctions are those of the
\* same render without log.
C18_LogChangesLabelsOnly ==
    (variant = "utils" /\ log \in {2, 10}) =>
        /\ pc = "bound" =>
               arcs = plot_density_single(variant, panel, graph_coords,
                                          region.start, max_used_y_val,
                                          no_bam, resolution, NoLog).arcs
        /\ \A p \in 1..Len(yticks) :
               LET plain == YTicksOf(variant,
                                     Linspace(EvenUp(panel_tops[p]), nyticks),
                                     NoLog, no_bam)
               IN  /\ yticks[p].positions = plain.positions
                   /\ Len(yticks[p].labels) = Len(plain.labels)
                   /\ \A k \in 1..Len(yticks[p].labels) :
                          /\ yticks[p].labels[k].base = log
                          /\ yticks[p].labels[k].value = plain.labels[k].value
                   /\ ybounds[p].top = EvenUp(panel_tops[p])
                   /\ ybounds[p].upper = Frac(EvenUp(panel_tops[p]), 12, 10)
                   /\ ybounds[p].lower = -Frac(panel_tops[p], 1, 2)

C18_Witness ==
    /\ variant = "utils"
    /\ log = 10
    /\ ~no_bam
    /\ pc = "done"
    /\ Len(arcs) > 0
    /\ Len(yticks) = n_panels
    /\ \E k \in 1..Len(yticks[1].positions) :
           /\ yticks[1].positions[k] > 0
           /\ yticks[1].labels[k].base = 10
           /\ yticks[1].labels[k].value = yticks[1].positions[k]

\* C19 as stated: the arrows of a transcript are flipped exactly when the
\* transcript is on the minus strand and the coordinate map was not mirrored
\* by reverse-minus; mirroring and flipping are never both applied.
C19_FlippedIffMinusAndNotMirrored ==
    pc = "done" =>
        \A t \in 1..Len(arrows) :
            arrows[t].narrows > 0 =>
                (arrows[t].flipped <=>
                     (transcripts[t].strand = "-" /\ forward))

---------------------------------------------------------------------------
(* Properties of the inputs of a render, checked under SpecInput *)

\* the depth array is shorter or longer than the region
BadDepth == Cardinality(DOMAIN panel.wiggle) # RegionLen

\* an exon begins before or ends after its transcript or the region
BadExon ==
    \E t \in 1..Len(transcripts) :
        \E k \in 1..Len(transcripts[t].exons) :
            LET exon == transcripts[t].exons[k]
            IN  \/ exon.start < Max(transcripts[t].start, region.start)
                \/ exon.end > Min(transcripts[t].end, region.end)

\* C21 as stated: a depth array whose length differs from the region span,
\* or an exon whose bounds lie outside its transcript or region bounds, makes
\* the render fail immediately: of such a panel nothing is filled or laid
\* out, of such transcripts nothing is drawn, and the render never completes.
C21_BadInputFails ==
    /\ BadDepth => (fill = NoArray /\ arcs = <<>>
                    /\ pc \in {"layout", "error"})
    /\ BadExon => (arrows = <<>> /\ pc # "done")

---------------------------------------------------------------------------
(* Properties of index_gtf, checked under SpecGtf *)

\* C22 as stated: across the whole chain of recursive retries of one
\* top-level call the sort step runs at most once, and the chain always ends
\* (by returning a path or by raising).
C22_SortsAtMostOnceAndEnds ==
    /\ [](gtf.sorts <= 1)
    /\ <>(gtf.pc \in {"returned", "raised"})

---------------------------------------------------------------------------
(* Properties of read_reads_depth_from_bam, checked under SpecBam *)

\* C27 as stated: for the same bam_list, the call with n_jobs > 1 ends as
\* the call with n_jobs = 1 does: with the same BAM entries in bam_list
\* order, whatever order the workers finish in, also when reading some but
\* not all files fails.
C27_SameOutcomeAnyJobs ==
    bam.pc = "done" =>
        [result |-> bam.result, res |-> bam.res] = SequentialRead(bam.reads)

---------------------------------------------------------------------------
(* Properties of the configuration, checked under SpecConfig *)

\* C20 as stated: a render whose configuration has exon_scale <= 0,
\* intron_scale <= 0 or resolution <= 0 fails before any coordinate map or
\* layout work is done: no geometry is produced from it.
C20_BadConfigRejected ==
    (settings.exon_scale <= 0 \/ settings.intron_scale <= 0
     \/ resolution <= 0) =>
        /\ pc \in {"scaling", "error"}
        /\ graph_coords = NoArray
        /\ graph_to_gene = NoArray

=============================================================================
